---- MODULE Spec2Model ----
(***************************************************************************)
(* Model of packages/common/src/data-converter-helpers.ts:                 *)
(* loadDataConverter, requirePayloadConverter and isValidPayloadConverter. *)
(*                                                                         *)
(* JavaScript values are records [kind, id, members, items]:               *)
(*   kind     the value's sort ("undefined", "null", "string", "object",   *)
(*            "function", "array")                                         *)
(*   id       the identity of an object, or the text of a string           *)
(*   members  typeof of the properties toPayload and fromPayload           *)
(*   items    the elements of an array                                     *)
(* Error messages are sequences of text pieces, so that a template literal *)
(* `...${path}...` keeps the interpolated path as one piece.               *)
(***************************************************************************)
EXTENDS Naturals, Sequences, FiniteSets

VARIABLES dataConverter, pc, result

vars == <<dataConverter, pc, result>>

\* Longest payloadCodec list a configuration carries.
MaxPipeline == 2

----------------------------------------------------------------------------
\* JavaScript values

NoMembers == [toPayload |-> "undefined", fromPayload |-> "undefined"]

Undefined == [kind |-> "undefined", id |-> "", members |-> NoMembers, items |-> <<>>]

Null == [kind |-> "null", id |-> "", members |-> NoMembers, items |-> <<>>]

Str(s) == [kind |-> "string", id |-> s, members |-> NoMembers, items |-> <<>>]

Obj(id, tp, fp) ==
  [kind |-> "object", id |-> id,
   members |-> [toPayload |-> tp, fromPayload |-> fp], items |-> <<>>]

Fn(id, tp, fp) ==
  [kind |-> "function", id |-> id,
   members |-> [toPayload |-> tp, fromPayload |-> fp], items |-> <<>>]

Arr(xs) == [kind |-> "array", id |-> "", members |-> NoMembers, items |-> xs]

\* typeof v: null and arrays are "object"
TypeOf(v) == IF v.kind \in {"null", "array"} THEN "object" ELSE v.kind

\* if (v): undefined, null and the empty string are falsy
Truthy(v) == /\ v.kind \notin {"undefined", "null"}
             /\ ~(v.kind = "string" /\ v.id = "")

\* a ?? b
Nullish(a, b) == IF a.kind \in {"undefined", "null"} THEN b ELSE a

\* record[prop]: a property the object does not have reads as undefined
Get(record, prop) == IF prop \in DOMAIN record THEN record[prop] ELSE Undefined

defaultPayloadConverter == Obj("defaultPayloadConverter", "function", "function")

defaultPayloadCodec == Obj("defaultPayloadCodec", "undefined", "undefined")

----------------------------------------------------------------------------
\* Errors

NoCode == "<none>"

NoError == [name |-> "<none>", code |-> NoCode, message |-> <<>>]

ValueError(message) == [name |-> "ValueError", code |-> NoCode, message |-> message]

errorCode(error) == error.code

hasOwnProperty(record, prop) == prop \in DOMAIN record

----------------------------------------------------------------------------
\* The modules require() can be asked for

EmptyModule == [x \in {} |-> Undefined]

CustomConverter == Obj("customConverter", "function", "function")

OtherConverter == Obj("otherConverter", "function", "function")

Paths ==
  {"", "./missing", "./throws", "./syntax", "./missing-dep", "./valid",
   "./valid-other", "./empty", "./undefined-export", "./null-export",
   "./string-export", "./no-fromPayload", "./no-toPayload",
   "./string-fromPayload", "./no-methods", "./fn-export", "./array-export",
   "./other-name", "./module-methods"}

Unresolvable == {"", "./missing"}

ModuleExports(path) ==
  CASE path = "./valid" -> [payloadConverter |-> CustomConverter]
    [] path = "./valid-other" ->
         [payloadConverter |-> OtherConverter, helper |-> Fn("helper", "undefined", "undefined")]
    [] path = "./empty" -> EmptyModule
    [] path = "./undefined-export" -> [payloadConverter |-> Undefined]
    [] path = "./null-export" -> [payloadConverter |-> Null]
    [] path = "./string-export" -> [payloadConverter |-> Str("converter")]
    [] path = "./no-fromPayload" ->
         [payloadConverter |-> Obj("encodeOnly", "function", "undefined")]
    [] path = "./no-toPayload" ->
         [payloadConverter |-> Obj("decodeOnly", "undefined", "function")]
    [] path = "./string-fromPayload" ->
         [payloadConverter |-> Obj("stringDecode", "function", "string")]
    [] path = "./no-methods" ->
         [payloadConverter |-> Obj("plain", "undefined", "undefined")]
    [] path = "./fn-export" ->
         [payloadConverter |-> Fn("ConverterClass", "function", "function")]
    [] path = "./array-export" ->
         [payloadConverter |-> Arr(<<CustomConverter>>)]
    [] path = "./other-name" -> [converter |-> CustomConverter]
    [] path = "./module-methods" ->
         [toPayload |-> Fn("toPayload", "undefined", "undefined"),
          fromPayload |-> Fn("fromPayload", "undefined", "undefined")]
    [] OTHER -> EmptyModule

\* The error the evaluation of the module at path raises, NoError when none
EvaluationError(path) ==
  CASE path = "./throws" ->
         [name |-> "Error", code |-> NoCode, message |-> <<"boom">>]
    [] path = "./syntax" ->
         [name |-> "SyntaxError", code |-> NoCode, message |-> <<"Unexpected token">>]
    [] path = "./missing-dep" ->
         [name |-> "Error", code |-> "MODULE_NOT_FOUND",
          message |-> <<"Cannot find module '", "./dep", "'">>]
    [] OTHER -> NoError

\* require(path): the module's exports, or the error raised
require(path) ==
  IF path = ""
  THEN [status |-> "thrown", module |-> EmptyModule,
        error |-> [name |-> "TypeError", code |-> "ERR_INVALID_ARG_VALUE",
                   message |-> <<"The argument 'id' must be a non-empty string">>]]
  ELSE IF path \in Unresolvable
  THEN [status |-> "thrown", module |-> EmptyModule,
        error |-> [name |-> "Error", code |-> "MODULE_NOT_FOUND",
                   message |-> <<"Cannot find module '", path, "'">>]]
  ELSE IF EvaluationError(path) # NoError
  THEN [status |-> "thrown", module |-> EmptyModule, error |-> EvaluationError(path)]
  ELSE [status |-> "returned", module |-> ModuleExports(path), error |-> NoError]

----------------------------------------------------------------------------
\* The code

Call(fn, arg) == [fn |-> fn, arg |-> arg]

Return(value, calls) ==
  [status |-> "returned", value |-> value, error |-> NoError, calls |-> calls]

Throw(error, calls) ==
  [status |-> "thrown", value |-> Undefined, error |-> error, calls |-> calls]

\* isValidPayloadConverter with some() where the source has every()
isValidPayloadConverter_some(PayloadConverter) ==
  /\ TypeOf(PayloadConverter) = "object"
  /\ PayloadConverter # Null
  /\ \E method \in {"toPayload", "fromPayload"} :
       PayloadConverter.members[method] = "function"

isValidPayloadConverter(PayloadConverter) ==
  /\ TypeOf(PayloadConverter) = "object"
  /\ PayloadConverter # Null
  /\ \A method \in {"toPayload", "fromPayload"} :
       PayloadConverter.members[method] = "function"

NotFoundMessage(path) ==
  <<"Could not find a file at the specified payloadConverterPath: '", path, "'.">>

InvalidShapeMessage(path) ==
  <<"payloadConverter export at ", path,
    " must be an object with toPayload and fromPayload methods">>

\* the export's name is quoted with backquotes in the source text
NoExportMessage(path) ==
  <<"Module ", path, " does not have a payloadConverter named export">>

\* requirePayloadConverter rethrowing every error of require() as it is
requirePayloadConverter_rethrow(path) ==
  LET loaded == require(path)
      calls1 == <<Call("require", path)>>
      calls2 == Append(calls1, Call("hasOwnProperty", path))
      calls3 == Append(calls2, Call("isValidPayloadConverter", path))
  IN IF loaded.status = "thrown"
     THEN Throw(loaded.error, calls1)
     ELSE IF hasOwnProperty(loaded.module, "payloadConverter")
     THEN IF isValidPayloadConverter(Get(loaded.module, "payloadConverter"))
          THEN Return(Get(loaded.module, "payloadConverter"), calls3)
          ELSE Throw(ValueError(InvalidShapeMessage(path)), calls3)
     ELSE Throw(ValueError(NoExportMessage(path)), calls2)

\* requirePayloadConverter reporting every error of require() as "not found"
requirePayloadConverter_catchAll(path) ==
  LET loaded == require(path)
      calls1 == <<Call("require", path)>>
      calls2 == Append(calls1, Call("hasOwnProperty", path))
      calls3 == Append(calls2, Call("isValidPayloadConverter", path))
  IN IF loaded.status = "thrown"
     THEN Throw(ValueError(NotFoundMessage(path)), calls1)
     ELSE IF hasOwnProperty(loaded.module, "payloadConverter")
     THEN IF isValidPayloadConverter(Get(loaded.module, "payloadConverter"))
          THEN Return(Get(loaded.module, "payloadConverter"), calls3)
          ELSE Throw(ValueError(InvalidShapeMessage(path)), calls3)
     ELSE Throw(ValueError(NoExportMessage(path)), calls2)

\* requirePayloadConverter without the hasOwnProperty test
requirePayloadConverter_noOwnCheck(path) ==
  LET loaded == require(path)
      calls1 == <<Call("require", path)>>
      calls3 == Append(calls1, Call("isValidPayloadConverter", path))
  IN IF loaded.status = "thrown"
     THEN IF errorCode(loaded.error) = "MODULE_NOT_FOUND"
          THEN Throw(ValueError(NotFoundMessage(path)), calls1)
          ELSE Throw(loaded.error, calls1)
     ELSE IF isValidPayloadConverter(Get(loaded.module, "payloadConverter"))
     THEN Return(Get(loaded.module, "payloadConverter"), calls3)
     ELSE Throw(ValueError(InvalidShapeMessage(path)), calls3)

requirePayloadConverter(path) ==
  LET loaded == require(path)
      calls1 == <<Call("require", path)>>
      calls2 == Append(calls1, Call("hasOwnProperty", path))
      calls3 == Append(calls2, Call("isValidPayloadConverter", path))
  IN IF loaded.status = "thrown"
     THEN IF errorCode(loaded.error) = "MODULE_NOT_FOUND"
          THEN Throw(ValueError(NotFoundMessage(path)), calls1)
          ELSE Throw(loaded.error, calls1)
     ELSE IF hasOwnProperty(loaded.module, "payloadConverter")
     THEN IF isValidPayloadConverter(Get(loaded.module, "payloadConverter"))
          THEN Return(Get(loaded.module, "payloadConverter"), calls3)
          ELSE Throw(ValueError(InvalidShapeMessage(path)), calls3)
     ELSE Throw(ValueError(NoExportMessage(path)), calls2)

NoDataConverter ==
  [defined |-> FALSE, payloadConverterPath |-> Undefined,
   payloadConverter |-> Undefined, payloadCodec |-> Undefined]

\* dataConverter?.field
Optional(config, field) == IF config.defined THEN config[field] ELSE Undefined

LoadedDataConverter(payloadConverter, payloadCodec) ==
  [payloadConverter |-> payloadConverter, payloadCodec |-> payloadCodec]

NotLoaded == LoadedDataConverter(Undefined, Undefined)

\* The shape every variant of loadDataConverter shares: the converter used
\* when no path is loaded, and the codec of the result
LoadWith(config, fallback, payloadCodec) ==
  LET path == Optional(config, "payloadConverterPath")
  IN IF Truthy(path)
     THEN LET required == requirePayloadConverter(path.id)
          IN IF required.status = "thrown"
             THEN [status |-> "thrown", value |-> NotLoaded,
                   error |-> required.error, calls |-> required.calls]
             ELSE [status |-> "returned",
                   value |-> LoadedDataConverter(required.value, payloadCodec),
                   error |-> NoError, calls |-> required.calls]
     ELSE [status |-> "returned",
           value |-> LoadedDataConverter(fallback, payloadCodec),
           error |-> NoError, calls |-> <<>>]

\* loadDataConverter starting from the configuration's payloadConverter
loadDataConverter_direct(config) ==
  LoadWith(config,
           Nullish(Optional(config, "payloadConverter"), defaultPayloadConverter),
           Nullish(Optional(config, "payloadCodec"), defaultPayloadCodec))

\* loadDataConverter without the default of payloadCodec
loadDataConverter_noDefaultCodec(config) ==
  LoadWith(config, defaultPayloadConverter, Optional(config, "payloadCodec"))

\* loadDataConverter wrapping a single payloadCodec in a list
loadDataConverter_wrapCodec(config) ==
  LET codec == Optional(config, "payloadCodec")
  IN LoadWith(config, defaultPayloadConverter,
              IF codec.kind \in {"undefined", "null"} THEN defaultPayloadCodec
              ELSE IF codec.kind = "array" THEN codec ELSE Arr(<<codec>>))

loadDataConverter(config) ==
  LET path == Optional(config, "payloadConverterPath")
      payloadCodec == Nullish(Optional(config, "payloadCodec"), defaultPayloadCodec)
  IN IF Truthy(path)
     THEN LET required == requirePayloadConverter(path.id)
          IN IF required.status = "thrown"
             THEN [status |-> "thrown", value |-> NotLoaded,
                   error |-> required.error, calls |-> required.calls]
             ELSE [status |-> "returned",
                   value |-> LoadedDataConverter(required.value, payloadCodec),
                   error |-> NoError, calls |-> required.calls]
     ELSE [status |-> "returned",
           value |-> LoadedDataConverter(defaultPayloadConverter, payloadCodec),
           error |-> NoError, calls |-> <<>>]

----------------------------------------------------------------------------
\* Configurations

Codecs == {Obj("codecA", "undefined", "undefined"), Obj("codecB", "undefined", "undefined")}

CodecLists == UNION {[1..n -> Codecs] : n \in 0..MaxPipeline}

PayloadCodecs == {Undefined, Null} \cup Codecs \cup {Arr(xs) : xs \in CodecLists}

DirectConverter == Obj("directConverter", "function", "function")

DataConverters ==
  {NoDataConverter} \cup
  [defined : {TRUE},
   payloadConverterPath : {Undefined} \cup {Str(p) : p \in Paths},
   payloadConverter : {Undefined, DirectConverter},
   payloadCodec : PayloadCodecs]

Pending == [status |-> "pending", value |-> NotLoaded, error |-> NoError, calls |-> <<>>]

Init ==
  /\ dataConverter \in DataConverters
  /\ pc = "start"
  /\ result = Pending

LoadDataConverter ==
  /\ pc = "start"
  /\ result' = loadDataConverter(dataConverter)
  /\ pc' = "done"
  /\ UNCHANGED dataConverter

Next == LoadDataConverter

Spec == Init /\ [][Next]_vars
----------------------------------------------------------------------------
\* Vocabulary of the properties

Done == pc = "done"

Returned == result.status = "returned"

Thrown == result.status = "thrown"

Configured == dataConverter.defined

PathValue == Optional(dataConverter, "payloadConverterPath")

PathGiven == PathValue.kind = "string"

GivenPath == PathValue.id

DirectGiven == Optional(dataConverter, "payloadConverter") = DirectConverter

CodecGiven == Optional(dataConverter, "payloadCodec")

Contains(message, piece) == \E i \in DOMAIN message : message[i] = piece

Attempted(fn) == \E i \in DOMAIN result.calls : result.calls[i].fn = fn

\* the file at p exists
Resolves(p) == p \notin Unresolvable

\* require(p) hands back a module
Loads(p) == require(p).status = "returned"

HasExport(p) == Loads(p) /\ "payloadConverter" \in DOMAIN require(p).module

Export(p) == require(p).module["payloadConverter"]

\* v is a non-null object whose toPayload and fromPayload are both callable
ExposesBoth(v) ==
  /\ v.kind \in {"object", "array"}
  /\ v.members["toPayload"] = "function"
  /\ v.members["fromPayload"] = "function"

\* why loading from p fails: "" when it does not fail
Cause(p) ==
  IF ~Resolves(p) THEN "not found"
  ELSE IF ~Loads(p) THEN "load error"
  ELSE IF ~HasExport(p) THEN "no export"
  ELSE IF ~ExposesBoth(Export(p)) THEN "wrong shape"
  ELSE ""

----------------------------------------------------------------------------
\* C1: whenever the configuration carries a payloadConverterPath, any string,
\* and the path does not resolve or the loaded export fails validation, the
\* call raises an error and never returns the default converter.
C1_NoSilentFallback ==
  (Done /\ PathGiven /\ Cause(GivenPath) \in {"not found", "no export", "wrong shape"})
    => /\ Thrown
       /\ result.value.payloadConverter # defaultPayloadConverter

\* C2 as stated: a payloadConverter instance given directly, with no
\* payloadConverterPath, is the payloadConverter of the result, and require
\* is not called.
C2_DirectInstanceUsed ==
  (Done /\ Configured /\ DirectGiven /\ ~PathGiven)
    => /\ Returned
       /\ result.value.payloadConverter = dataConverter.payloadConverter
       /\ ~Attempted("require")

\* C2 amended: a payloadConverter instance given directly, with no
\* payloadConverterPath, is not read: the result carries the default payload
\* converter, and require is not called.
C2_DirectInstanceIgnored ==
  (Done /\ Configured /\ DirectGiven /\ ~PathGiven)
    => /\ Returned
       /\ result.value.payloadConverter = defaultPayloadConverter
       /\ result.value.payloadConverter # dataConverter.payloadConverter
       /\ result.calls = <<>>

C2_Witness ==
  /\ Done /\ Configured /\ DirectGiven /\ ~PathGiven
  /\ Returned
  /\ result.value.payloadConverter = defaultPayloadConverter

\* C3: for every payloadConverterPath that does not resolve to a module, the
\* call raises the "could not find a file" error, whose message contains the
\* path as it was given.
C3_NotFoundNamesPath ==
  (Done /\ PathGiven /\ ~Resolves(GivenPath))
    => /\ Thrown
       /\ result.error = ValueError(NotFoundMessage(GivenPath))
       /\ Contains(result.error.message, GivenPath)

\* C4: when the path resolves and the payloadConverter export is null, not an
\* object, or lacks a callable toPayload or fromPayload, loading raises the
\* invalid-shape error and returns no converter; an object with both callable
\* members is accepted whatever its identity.
C4_InvalidShapeRejected ==
  (Done /\ PathGiven /\ HasExport(GivenPath))
    => IF ExposesBoth(Export(GivenPath))
       THEN /\ Returned
            /\ result.value.payloadConverter = Export(GivenPath)
       ELSE /\ Thrown
            /\ result.error = ValueError(InvalidShapeMessage(GivenPath))
            /\ result.value = NotLoaded

C4_Witness ==
  /\ Done /\ PathGiven /\ HasExport(GivenPath)
  /\ Export(GivenPath).kind = "object"
  /\ Export(GivenPath).members["toPayload"] = "function"
  /\ Export(GivenPath).members["fromPayload"] # "function"
  /\ Thrown

C6_DefaultsWhenUnconfigured ==
  (Done /\ (~Configured \/ (/\ PathValue = Undefined
                            /\ Optional(dataConverter, "payloadConverter") = Undefined
                            /\ CodecGiven = Undefined)))
    => /\ Returned
       /\ result.value = LoadedDataConverter(defaultPayloadConverter, defaultPayloadCodec)
       /\ result.calls = <<>>

C6_Witness ==
  /\ Done /\ Configured
  /\ PathValue = Undefined
  /\ Optional(dataConverter, "payloadConverter") = Undefined
  /\ CodecGiven = Undefined
  /\ Returned

\* The ordered pipeline a payloadCodec value stands for
Pipeline(codec) ==
  IF codec.kind \in {"undefined", "null"} THEN defaultPayloadCodec
  ELSE IF codec.kind = "array" THEN codec
  ELSE Arr(<<codec>>)

\* C7 as stated: the result carries the payloadCodec normalized to an ordered
\* pipeline, a single instance becoming a one-element pipeline, and the
\* default codec when payloadCodec is absent.
C7_CodecNormalized ==
  (Done /\ Returned) => result.value.payloadCodec = Pipeline(CodecGiven)

\* C7 amended: the result carries the payloadCodec as it was given, a single
\* instance staying that instance and a list staying that list in its order,
\* and the default codec when payloadCodec is undefined or null, whichever
\* payload converter was selected.
C7_CodecPassedThrough ==
  (Done /\ Returned)
    => /\ CodecGiven.kind \in {"undefined", "null"}
            => result.value.payloadCodec = defaultPayloadCodec
       /\ CodecGiven.kind \notin {"undefined", "null"}
            => /\ result.value.payloadCodec = CodecGiven
               /\ result.value.payloadCodec.items = CodecGiven.items

C7_Witness ==
  /\ Done /\ Returned
  /\ CodecGiven.kind = "object"
  /\ result.value.payloadCodec = CodecGiven
  /\ result.value.payloadConverter = CustomConverter

\* C8: when the configuration carries both a payloadConverter instance and a
\* payloadConverterPath, the result's payloadConverter is the one loaded from
\* the path, or the load error is raised, and the instance is not in the
\* result.
C8_PathWins ==
  (Done /\ Configured /\ DirectGiven /\ PathGiven)
    => /\ \/ Thrown
          \/ /\ Returned
             /\ HasExport(GivenPath)
             /\ result.value.payloadConverter = Export(GivenPath)
       /\ result.value.payloadConverter # DirectConverter

\* C9: when the path resolves to a module without an own payloadConverter
\* property, loading raises the ValueError naming the module path, also when
\* toPayload and fromPayload are on the module itself or under another name;
\* a converter comes from a path only as the module's own payloadConverter
\* export that passes the shape check.
C9_OwnExportRequired ==
  /\ (Done /\ PathGiven /\ Loads(GivenPath) /\ ~HasExport(GivenPath))
       => /\ Thrown
          /\ result.error = ValueError(NoExportMessage(GivenPath))
          /\ Contains(result.error.message, GivenPath)
  /\ (Done /\ Returned /\ Attempted("require"))
       => /\ HasExport(GivenPath)
          /\ result.value.payloadConverter = Export(GivenPath)
          /\ ExposesBoth(Export(GivenPath))

C9_Witness ==
  /\ Done /\ PathGiven /\ Loads(GivenPath) /\ ~HasExport(GivenPath)
  /\ "toPayload" \in DOMAIN require(GivenPath).module
  /\ "fromPayload" \in DOMAIN require(GivenPath).module
  /\ Thrown

\* C10: when require throws an error whose code is not MODULE_NOT_FOUND, the
\* caller gets that same error and nothing is validated; when require throws
\* an error whose code is MODULE_NOT_FOUND, the caller gets the "could not
\* find a file" ValueError naming payloadConverterPath.
C10_OtherErrorsPropagate ==
  (Done /\ Attempted("require") /\ ~Loads(GivenPath))
    => /\ Thrown
       /\ result.calls = <<Call("require", GivenPath)>>
       /\ IF require(GivenPath).error.code = "MODULE_NOT_FOUND"
          THEN result.error = ValueError(NotFoundMessage(GivenPath))
          ELSE result.error = require(GivenPath).error

C10_Witness ==
  /\ Done /\ Attempted("require") /\ ~Loads(GivenPath)
  /\ require(GivenPath).error.code # "MODULE_NOT_FOUND"
  /\ Thrown
  /\ result.error.name = "SyntaxError"

====
